---- MODULE Spec2Model ----
(***************************************************************************)
(* Verification model of turtl core: the main job loop and stop()          *)
(* (src/src/main.rs) and the message dispatcher (src/src/dispatch.rs).     *)
(*                                                                         *)
(* The main thread ("turtl-main") is the single consumer of queue_main, a  *)
(* lock-free multi-producer FIFO (crossbeam MsQueue).  Any other thread    *)
(* may push jobs or call stop().  stop() is two separate memory            *)
(* operations (store to RUN, then push), so it is modelled as two steps.   *)
(***************************************************************************)
EXTENDS Integers, Sequences, FiniteSets, TLC

\* ------------------------------------------------------------------ bounds
MaxJobs == 2            \* jobs pushed by producer threads
NumProducers == 2       \* producer threads
NumStoppers == 2        \* calls of stop()
MaxSync == 2            \* sync ids handed out by enqueue_pending
MaxHandlers == 3        \* handlers bound by bind() calls of other components

Producers == 1..NumProducers
Stoppers == 1..NumStoppers

\* ------------------------------------------------------------------- state
VARIABLES
    RUN,          \* the Stopper flag (lazy_static RUN)
    queue_main,   \* the MsQueue shared by every thread
    pc,           \* position of the turtl-main thread inside start()
    handler,      \* the job popped by the main loop (<<>> when none)
    running,      \* jobs whose call_box() has begun and not yet returned
    started,      \* history: jobs in the order their call_box() began
    executed,     \* history: jobs in the order their call_box() returned
    pushed,       \* history: jobs in the order their push() took effect
    nextJob,      \* number of jobs pushed by producers so far
    stopPc,       \* position of each stop() caller
    seenAtExit,   \* history: Len(pushed) when the loop read RUN = false
    atStop,       \* history: was a job due when RUN first became false, and
                  \* the number of jobs begun since
    trace,        \* history: shutdown steps of turtl-main in order
    errlog,       \* error! lines written by turtl-main
    events,       \* turtl.events: the handlers bound, in binding order
    search,       \* turtl.search: "none" until the index has been built
    pending,      \* outgoing sync queue: ids awaiting transmission
    frozen,       \* outgoing sync queue: ids whose retry is suspended
    nextSync,     \* number of sync ids handed out so far
    syncEv,       \* history: the last change made to the outgoing queue
    call          \* the call of process() the messaging side has just made
                  \* and what it did; NoCall while it waits for a message

pipeVars == <<RUN, queue_main, pc, handler, running, started, executed,
              pushed, nextJob, stopPc, seenAtExit, atStop, trace, errlog>>

dispVars == <<events, search, pending, frozen, nextSync, syncEv, call>>

vars == <<RUN, queue_main, pc, handler, running, started, executed,
          pushed, nextJob, stopPc, seenAtExit, atStop, trace, errlog,
          events, search, pending, frozen, nextSync, syncEv, call>>

Job(p, n) == [kind |-> "job", id |-> n, by |-> p]
NoopJob(s) == [kind |-> "noop", id |-> s, by |-> 0]

InLoop == pc \in {"loop", "pop", "call", "exec"}
Exited == pc \in {"shutdown", "join", "done"}

\* ------------------------------------------------------- message envelopes
\* A JSON value at one position of the envelope array.  An object is
\* described by its "id" field: "" when the object has none.
Val(k, v) == [k |-> k, v |-> v]
Absent == Val("absent", "")
Num == Val("num", "7")
Str(x) == Val("str", x)
Obj(id) == Val("obj", id)
Arr == Val("arr", "")

\* The 23 command strings matched by dispatch().
Commands ==
    {"user:login", "user:join", "user:logout", "user:delete-account",
     "app:wipe-user-data", "app:wipe-app-data", "sync:start", "sync:pause",
     "sync:resume", "sync:shutdown", "sync:delete-item", "sync:get-frozen",
     "sync:get-pending", "sync:unfreeze-item", "app:api:set-endpoint",
     "app:shutdown", "profile:load", "profile:sync:model",
     "profile:get-notes", "profile:find-notes", "profile:get-tags",
     "feedback:send", "ping"}

UnknownCommands == {"bogus", "PING", ""}

SyncActions == {"Add", "Edit", "Delete"}

\* the types profile:sync:model saves and deletes directly
DirectTypesWithKeychain ==
    {"User", "Space", "Board", "Note", "Invite", "Keychain"}

DirectTypes == {"User", "Space", "Board", "Note", "Invite"}

SyncTypes == DirectTypes \cup {"File", "Keychain"}

\* Sync ids are handed out in this order.
SyncIdOf == <<"s1", "s2", "s3", "s4">>
SyncIds == {SyncIdOf[i] : i \in 1..MaxSync}

\* An envelope: does the text parse as JSON, and the values at 0..4.
Env(ok, p0, p1, p2, p3, p4) == [parses |-> ok, p |-> <<p0, p1, p2, p3, p4>>]
At(data, i) == data.p[i + 1]

\* ------------------------------------------------------------------ results
NoErr == [kind |-> "", info |-> ""]
NoVal == [t |-> "none", items |-> <<>>]
EmptyObj == [t |-> "obj", items |-> <<>>]
NullVal == [t |-> "null", items |-> <<>>]
Pong == [t |-> "str:pong", items |-> <<>>]
ListVal(q) == [t |-> "list", items |-> q]
ModelVal(id) == [t |-> "model", items |-> <<id>>]
ProfileVal == [t |-> "spaces+boards", items |-> <<>>]

Ok(v) == [ok |-> TRUE, val |-> v, err |-> NoErr]
Err(kind, info) == [ok |-> FALSE, val |-> NoVal, err |-> [kind |-> kind, info |-> info]]

\* jedi::get::<String>(&[pos], &data)
GetString(data, i) ==
    LET x == At(data, i) IN
    CASE x.k = "absent" -> Err("NotFound", ToString(i))
      [] x.k # "str" -> Err("BadType", ToString(i))
      [] OTHER -> Ok(ListVal(<<x.v>>))

\* jedi::get::<SyncAction>(&["2"], &data)
GetAction(data) ==
    LET x == At(data, 2) IN
    CASE x.k = "absent" -> Err("NotFound", "2")
      [] x.k # "str" \/ x.v \notin SyncActions -> Err("BadType", "2")
      [] OTHER -> Ok(ListVal(<<x.v>>))

\* jedi::get::<SyncType>(&["3"], &data)
GetType(data) ==
    LET x == At(data, 3) IN
    CASE x.k = "absent" -> Err("NotFound", "3")
      [] x.k # "str" \/ x.v \notin SyncTypes -> Err("BadType", "3")
      [] OTHER -> Ok(ListVal(<<x.v>>))

\* jedi::get::<Model>(&["4"], &data), jedi::get::<Query>, <Feedback>
GetObject(data, i) ==
    LET x == At(data, i) IN
    CASE x.k = "absent" -> Err("NotFound", ToString(i))
      [] x.k # "obj" -> Err("BadType", ToString(i))
      [] OTHER -> Ok(ListVal(<<x.v>>))

GetIdLenient(data) ==
    LET x == At(data, 4) IN
    CASE x.k = "absent" -> Ok(ListVal(<<"">>))
      [] x.k # "obj" -> Ok(ListVal(<<"">>))
      [] OTHER -> Ok(ListVal(<<x.v>>))

\* jedi::get::<String>(&["4", "id"], &data)
GetId(data) ==
    LET x == At(data, 4) IN
    CASE x.k = "absent" -> Err("NotFound", "4")
      [] x.k # "obj" -> Err("BadType", "4")
      [] x.v = "" -> Err("NotFound", "4.id")
      [] OTHER -> Ok(ListVal(<<x.v>>))

\* jedi::get::<Vec<String>>(&[pos], &data)
GetStrings(data, i) ==
    LET x == At(data, i) IN
    CASE x.k = "absent" -> Err("NotFound", ToString(i))
      [] x.k # "arr" -> Err("BadType", ToString(i))
      [] OTHER -> Ok(ListVal(<<>>))

\* jedi::get::<i32>(&[pos], &data)
GetInt(data, i) ==
    LET x == At(data, i) IN
    CASE x.k = "absent" -> Err("NotFound", ToString(i))
      [] x.k # "num" -> Err("BadType", ToString(i))
      [] OTHER -> Ok(ListVal(<<x.v>>))

Arg(r) == r.val.items[1]

\* -------------------------------------------------- the outgoing sync queue
Range(q) == {q[i] : i \in 1..Len(q)}
Without(q, x) == SelectSeq(q, LAMBDA y : y # x)

\* ids of set S in the order they were enqueued
RECURSIVE InEnqueueOrder(_, _)
InEnqueueOrder(S, i) ==
    IF i > Len(SyncIdOf) THEN <<>>
    ELSE (IF SyncIdOf[i] \in S THEN <<SyncIdOf[i]>> ELSE <<>>)
         \o InEnqueueOrder(S, i + 1)

NoEv == [op |-> "none", id |-> ""]
Ev(op, id) == [op |-> op, id |-> id]

\* SyncOutgoing::delete_sync_item
DeleteSyncItem(t, id) ==
    [t EXCEPT !.pending = Without(@, id),
              !.frozen = Without(@, id),
              !.syncEv = Ev("delete", id)]

\* SyncOutgoing::kick_frozen_sync: Ok only for a frozen id
KickFound(t, id) == id \in Range(t.frozen)

KickFrozenSync(t, id) ==
    [t EXCEPT !.frozen = Without(@, id),
              !.pending = InEnqueueOrder(Range(@) \cup {id}, 1),
              !.syncEv = Ev("unfreeze", id)]

\* SyncOutgoing::get_all_frozen, get_all_pending
GetAllFrozen(t) == t.frozen
GetAllPending(t) == t.pending

\* ------------------------------------------------------------ event emitter
\* The handler bound in start(): stop(tx_main_shutdown.clone())
StopHandler(t) ==
    [t EXCEPT !.RUN = FALSE,
              !.queue_main = Append(@, NoopJob(0)),
              !.pushed = Append(@, NoopJob(0))]

\* A binding: the event name, the handler id given to bind(), and what the
\* handler does when invoked.
Binding(name, id, does) == [name |-> name, id |-> id, does |-> does]
EventNames == {"app:shutdown", "sync:update"}
HandlerIds == {"h1", "h2"}
Behaviours == {"nop", "bind", "unbind"}

\* bind(name, handler, id) / unbind(name, id) on a list of bindings
BindTo(es, b) ==
    IF \E i \in 1..Len(es) : es[i].name = b.name /\ es[i].id = b.id
    THEN es ELSE Append(es, b)

UnbindFrom(es, name, id) ==
    SelectSeq(es, LAMBDA e : ~(e.name = name /\ e.id = id))

\* One handler is invoked: "stop" is the handler bound in start(); "bind"
\* binds another handler to the name it serves, "unbind" unbinds every
\* other handler of that name.
RunHandler(h, t) ==
    LET u == [t EXCEPT !.fired = Append(@, h.id)] IN
    CASE h.does = "stop" -> StopHandler(u)
      [] h.does = "bind" ->
            [u EXCEPT !.events = BindTo(@, Binding(h.name, "late", "nop"))]
      [] h.does = "unbind" ->
            [u EXCEPT !.events =
                SelectSeq(@, LAMBDA e : ~(e.name = h.name /\ e.id # h.id))]
      [] OTHER -> u

\* A trigger that walks the live list of bindings instead of the bindings
\* present when it was called.
TriggerLive(hs, name, t) ==
    LET RECURSIVE From(_, _)
        From(i, u) ==
            IF i > Len(u.events) THEN u
            ELSE From(i + 1, IF u.events[i].name = name
                             THEN RunHandler(u.events[i], u) ELSE u)
    IN  From(1, t)

\* events.trigger(name, ..): every handler among hs, the bindings present
\* at the call, that is bound to name, in binding order
RECURSIVE Trigger(_, _, _)
Trigger(hs, name, t) ==
    IF hs = <<>> THEN t
    ELSE Trigger(Tail(hs), name,
                 IF Head(hs).name = name THEN RunHandler(Head(hs), t) ELSE t)

\* ---------------------------------------------------------------- dispatch
\* What one call of dispatch() produced: its TResult, the collaborator
\* operations it invoked (in order) and the shared state it left.
Out(res, ops, t) == [res |-> res, ops |-> ops, t |-> t]

\* o.fail = k: the k-th fallible collaborator call of the handler fails.
Failed(op) == Err("Collaborator", op)

CmdUserLoginDefaultsPassword(data, o, t) ==
    LET username == GetString(data, 2)
    IN  IF ~username.ok THEN Out(username, <<>>, t)
        ELSE IF o.fail = 1 THEN Out(Failed("login"), <<"login">>, t)
        ELSE Out(Ok(EmptyObj), <<"login">>, t)

CmdUserLogin(data, o, t) ==
    LET username == GetString(data, 2)
        password == GetString(data, 3)
    IN  IF ~username.ok THEN Out(username, <<>>, t)
        ELSE IF ~password.ok THEN Out(password, <<>>, t)
        ELSE IF o.fail = 1 THEN Out(Failed("login"), <<"login">>, t)
        ELSE Out(Ok(EmptyObj), <<"login">>, t)

CmdUserJoin(data, o, t) ==
    LET username == GetString(data, 2)
        password == GetString(data, 3)
    IN  IF ~username.ok THEN Out(username, <<>>, t)
        ELSE IF ~password.ok THEN Out(password, <<>>, t)
        ELSE IF o.fail = 1 THEN Out(Failed("join"), <<"join">>, t)
        ELSE Out(Ok(EmptyObj), <<"join">>, t)

\* user:logout, user:delete-account, app:wipe-user-data, app:wipe-app-data,
\* sync:start, sync:shutdown: one fallible Coordinator operation.
CmdCoordinator(op, o, t) ==
    IF o.fail = 1 THEN Out(Failed(op), <<op>>, t)
    ELSE Out(Ok(EmptyObj), <<op>>, t)

\* sync:pause, sync:resume: the call has no result to propagate
CmdSyncAdvisory(op, t) == Out(Ok(EmptyObj), <<op>>, t)

CmdSyncDeleteItemStrict(data, t) ==
    LET sync_id == GetString(data, 2)
    IN  IF ~sync_id.ok THEN Out(sync_id, <<>>, t)
        ELSE IF Arg(sync_id) \notin Range(t.pending) \cup Range(t.frozen)
             THEN Out(Err("NotFound", Arg(sync_id)), <<"delete_sync_item">>, t)
        ELSE Out(Ok(EmptyObj), <<"delete_sync_item">>,
                 DeleteSyncItem(t, Arg(sync_id)))

CmdSyncDeleteItem(data, t) ==
    LET sync_id == GetString(data, 2)
    IN  IF ~sync_id.ok THEN Out(sync_id, <<>>, t)
        ELSE Out(Ok(EmptyObj), <<"delete_sync_item">>,
                 DeleteSyncItem(t, Arg(sync_id)))

CmdSyncGetFrozen(t) ==
    Out(Ok(ListVal(GetAllFrozen(t))), <<"get_all_frozen">>, t)

CmdSyncGetPendingReadsFrozen(t) ==
    Out(Ok(ListVal(GetAllFrozen(t))), <<"get_all_frozen">>, t)

CmdSyncGetPending(t) ==
    Out(Ok(ListVal(GetAllPending(t))), <<"get_all_pending">>, t)

CmdSyncUnfreezeItemDeletes(data, t) ==
    LET sync_id == GetString(data, 2)
    IN  IF ~sync_id.ok THEN Out(sync_id, <<>>, t)
        ELSE Out(Ok(EmptyObj), <<"delete_sync_item">>,
                 DeleteSyncItem(t, Arg(sync_id)))

CmdSyncUnfreezeItem(data, t) ==
    LET sync_id == GetString(data, 2)
    IN  IF ~sync_id.ok THEN Out(sync_id, <<>>, t)
        ELSE IF ~KickFound(t, Arg(sync_id))
             THEN Out(Err("NotFound", Arg(sync_id)), <<"kick_frozen_sync">>, t)
        ELSE Out(Ok(EmptyObj), <<"kick_frozen_sync">>,
                 KickFrozenSync(t, Arg(sync_id)))

CmdSetEndpoint(data, o, t) ==
    LET endpoint == GetString(data, 2)
    IN  IF ~endpoint.ok THEN Out(endpoint, <<>>, t)
        ELSE IF o.fail = 1 THEN Out(Failed("config_set"), <<"config_set">>, t)
        ELSE Out(Ok(EmptyObj), <<"config_set">>, t)

CmdAppShutdownNoTrigger(o, t) ==
    IF o.fail = 1 THEN Out(Failed("sync_shutdown"), <<"sync_shutdown">>, t)
    ELSE Out(Ok(EmptyObj), <<"sync_shutdown">>, t)

CmdAppShutdownTriggersAnyway(o, t) ==
    IF o.fail = 1
    THEN Out(Failed("sync_shutdown"), <<"sync_shutdown">>,
             Trigger(t.events, "app:shutdown", t))
    ELSE Out(Ok(EmptyObj), <<"sync_shutdown", "trigger">>,
             Trigger(t.events, "app:shutdown", t))

CmdAppShutdown(o, t) ==
    IF o.fail = 1 THEN Out(Failed("sync_shutdown"), <<"sync_shutdown">>, t)
    ELSE Out(Ok(EmptyObj), <<"sync_shutdown", "trigger">>,
             Trigger(t.events, "app:shutdown", t))

CmdProfileLoadNeedsSearch(t) ==
    IF t.search = "none" THEN Out(Err("MissingField", "search"), <<>>, t)
    ELSE Out(Ok(ProfileVal), <<>>, t)

CmdProfileLoad(t) == Out(Ok(ProfileVal), <<>>, t)

CmdSyncModel(data, o, t) ==
    LET action == GetAction(data)
        ty == GetType(data)
        model == GetObject(data, 4)
        id == GetId(data)
        unsupported == Err("BadValue", Arg(ty))
    IN  IF ~action.ok THEN Out(Err("BadValue", "bad sync action"), <<>>, t)
        ELSE IF ~ty.ok THEN Out(ty, <<>>, t)
        ELSE IF Arg(action) \in {"Add", "Edit"} THEN
            IF Arg(ty) \in DirectTypes THEN
                IF ~model.ok THEN Out(model, <<>>, t)
                ELSE IF o.fail = 1
                     THEN Out(Failed("save_model"), <<"save_model">>, t)
                ELSE Out(Ok(ModelVal(Arg(model))), <<"save_model">>, t)
            ELSE IF Arg(ty) = "File" THEN Out(Ok(NullVal), <<>>, t)
            ELSE Out(unsupported, <<>>, t)
        ELSE
            IF ~id.ok THEN Out(id, <<>>, t)
            ELSE IF Arg(ty) \in DirectTypes THEN
                IF o.fail = 1
                THEN Out(Failed("delete_model"), <<"delete_model">>, t)
                ELSE Out(Ok(EmptyObj), <<"delete_model">>, t)
            ELSE IF Arg(ty) = "File" THEN Out(Ok(EmptyObj), <<>>, t)
            ELSE Out(unsupported, <<>>, t)

CmdGetNotes(data, o, t) ==
    LET note_ids == GetStrings(data, 2)
    IN  IF ~note_ids.ok THEN Out(note_ids, <<>>, t)
        ELSE IF o.fail = 1 THEN Out(Failed("load_notes"), <<"load_notes">>, t)
        ELSE Out(Ok(ListVal(<<>>)), <<"load_notes">>, t)

CmdFindNotesUnchecked(data, o, t) ==
    LET qry == GetObject(data, 2)
    IN  IF ~qry.ok THEN Out(qry, <<>>, t)
        ELSE IF o.fail = 1 THEN Out(Failed("find"), <<"find">>, t)
        ELSE IF o.fail = 2
             THEN Out(Failed("load_notes"), <<"find", "load_notes">>, t)
        ELSE Out(Ok(ListVal(<<>>)), <<"find", "load_notes">>, t)

CmdFindNotes(data, o, t) ==
    LET qry == GetObject(data, 2)
    IN  IF ~qry.ok THEN Out(qry, <<>>, t)
        ELSE IF t.search = "none" THEN Out(Err("MissingField", "search"), <<>>, t)
        ELSE IF o.fail = 1 THEN Out(Failed("find"), <<"find">>, t)
        ELSE IF o.fail = 2
             THEN Out(Failed("load_notes"), <<"find", "load_notes">>, t)
        ELSE Out(Ok(ListVal(<<>>)), <<"find", "load_notes">>, t)

CmdGetTags(data, o, t) ==
    LET space_id == GetString(data, 2)
        boards == GetStrings(data, 3)
        limit == GetInt(data, 4)
    IN  IF ~space_id.ok THEN Out(space_id, <<>>, t)
        ELSE IF ~boards.ok THEN Out(boards, <<>>, t)
        ELSE IF ~limit.ok THEN Out(limit, <<>>, t)
        ELSE IF t.search = "none" THEN Out(Err("MissingField", "search"), <<>>, t)
        ELSE IF o.fail = 1
             THEN Out(Failed("tags_by_frequency"), <<"tags_by_frequency">>, t)
        ELSE Out(Ok(ListVal(<<>>)), <<"tags_by_frequency">>, t)

CmdFeedbackSend(data, o, t) ==
    LET feedback == GetObject(data, 2)
    IN  IF ~feedback.ok THEN Out(feedback, <<>>, t)
        ELSE IF o.fail = 1 THEN Out(Failed("send"), <<"send">>, t)
        ELSE Out(Ok(EmptyObj), <<"send">>, t)

CmdPing(t) == Out(Ok(Pong), <<>>, t)

CmdUnknownUnnamed(cmd, t) == Out(Err("MissingCommand", ""), <<>>, t)

CmdUnknown(cmd, t) == Out(Err("MissingCommand", cmd), <<>>, t)

Dispatch(cmd, data, o, t) ==
    CASE cmd = "user:login" -> CmdUserLogin(data, o, t)
      [] cmd = "user:join" -> CmdUserJoin(data, o, t)
      [] cmd = "user:logout" -> CmdCoordinator("logout", o, t)
      [] cmd = "user:delete-account" -> CmdCoordinator("delete_account", o, t)
      [] cmd = "app:wipe-user-data" -> CmdCoordinator("wipe_user_data", o, t)
      [] cmd = "app:wipe-app-data" -> CmdCoordinator("wipe_app_data", o, t)
      [] cmd = "sync:start" -> CmdCoordinator("sync_start", o, t)
      [] cmd = "sync:pause" -> CmdSyncAdvisory("sync_pause", t)
      [] cmd = "sync:resume" -> CmdSyncAdvisory("sync_resume", t)
      [] cmd = "sync:shutdown" -> CmdCoordinator("sync_shutdown", o, t)
      [] cmd = "sync:delete-item" -> CmdSyncDeleteItem(data, t)
      [] cmd = "sync:get-frozen" -> CmdSyncGetFrozen(t)
      [] cmd = "sync:get-pending" -> CmdSyncGetPending(t)
      [] cmd = "sync:unfreeze-item" -> CmdSyncUnfreezeItem(data, t)
      [] cmd = "app:api:set-endpoint" -> CmdSetEndpoint(data, o, t)
      [] cmd = "app:shutdown" -> CmdAppShutdown(o, t)
      [] cmd = "profile:load" -> CmdProfileLoad(t)
      [] cmd = "profile:sync:model" -> CmdSyncModel(data, o, t)
      [] cmd = "profile:get-notes" -> CmdGetNotes(data, o, t)
      [] cmd = "profile:find-notes" -> CmdFindNotes(data, o, t)
      [] cmd = "profile:get-tags" -> CmdGetTags(data, o, t)
      [] cmd = "feedback:send" -> CmdFeedbackSend(data, o, t)
      [] cmd = "ping" -> CmdPing(t)
      [] OTHER -> CmdUnknown(cmd, t)

\* ------------------------------------------------------------ the messages
ReqIds == {"r1", "r2"}

NoArgs == {<<Absent, Absent, Absent>>}

ArgsFor(c) ==
    CASE c \in {"user:login", "user:join"} ->
            {<<a, b, Absent>> : a \in {Absent, Num, Str("u")},
                                b \in {Absent, Num, Str("pw")}}
      [] c \in {"sync:delete-item", "sync:unfreeze-item"} ->
            {<<a, Absent, Absent>> :
                a \in {Absent, Num} \cup {Str(x) : x \in SyncIds \cup {"zz"}}}
      [] c = "app:api:set-endpoint" ->
            {<<a, Absent, Absent>> : a \in {Absent, Num, Str("http://e")}}
      [] c = "profile:sync:model" ->
            {<<a, b, m>> :
                a \in {Absent} \cup {Str(x) : x \in SyncActions \cup {"Bogus"}},
                b \in {Absent} \cup {Str(x) : x \in SyncTypes \cup {"Bogus"}},
                m \in {Absent, Obj(""), Obj("abc")}}
      [] c = "profile:get-notes" ->
            {<<a, Absent, Absent>> : a \in {Absent, Num, Arr}}
      [] c \in {"profile:find-notes", "feedback:send"} ->
            {<<a, Absent, Absent>> : a \in {Absent, Num, Obj("")}}
      [] c = "profile:get-tags" ->
            {<<a, b, n>> : a \in {Absent, Str("sp")}, b \in {Absent, Arr},
                           n \in {Absent, Str("x"), Num}}
      [] c \in UnknownCommands ->
            {<<a, Absent, Absent>> : a \in {Absent, Str(SyncIdOf[1])}}
      [] OTHER -> NoArgs

Decodable ==
    UNION {{Env(TRUE, Str(r), Str(c), a[1], a[2], a[3]) : a \in ArgsFor(c)} :
           r \in ReqIds, c \in Commands \cup UnknownCommands}

Undecodable ==
    {Env(FALSE, Absent, Absent, Absent, Absent, Absent)}
    \cup {Env(TRUE, m, c, a, Absent, Absent) :
            m \in {Absent, Num},
            c \in {Absent, Num, Str("ping"), Str("sync:delete-item")},
            a \in {Absent, Str(SyncIdOf[1])}}
    \cup {Env(TRUE, Str(r), c, a, Absent, Absent) :
            r \in ReqIds, c \in {Absent, Num}, a \in {Absent, Str(SyncIdOf[1])}}

Messages == Decodable \cup Undecodable

\* Number of fallible collaborator calls a handler makes.
Fallible(c) ==
    CASE c = "profile:find-notes" -> 2
      [] c \in {"user:login", "user:join", "user:logout", "user:delete-account",
                "app:wipe-user-data", "app:wipe-app-data", "sync:start",
                "sync:shutdown", "app:api:set-endpoint", "app:shutdown",
                "profile:sync:model", "profile:get-notes", "profile:get-tags",
                "feedback:send"} -> 1
      [] OTHER -> 0

\* The outcomes of the collaborators during one call: which fallible call
\* fails (0: none) and whether the response can be transmitted.
OraclesFor(msg) ==
    IF msg \in Decodable
    THEN [fail : 0..Fallible(At(msg, 1).v), send : BOOLEAN]
    ELSE {[fail |-> 0, send |-> TRUE]}

\* The envelopes that concern the outgoing sync queue.
SyncCommands ==
    {"sync:delete-item", "sync:get-frozen", "sync:get-pending",
     "sync:unfreeze-item", "app:shutdown"} \cup UnknownCommands

SyncMessages ==
    Undecodable
    \cup {m \in Decodable : At(m, 1).v \in SyncCommands /\ At(m, 0).v = "r1"}

\* The envelopes that ask for shutdown, next to a harmless one.
ShutdownMessages ==
    {m \in Decodable :
        At(m, 1).v \in {"app:shutdown", "ping"} /\ At(m, 0).v = "r1"}

NoCall ==
    [msg |-> Env(FALSE, Absent, Absent, Absent, Absent, Absent),
     stage |-> "none", mid |-> "", cmd |-> "", res |-> Ok(NoVal),
     ret |-> Ok(NoVal), sent |-> <<>>, log |-> <<>>, ops |-> <<>>,
     ev |-> NoEv, fired |-> <<>>]

\* -------------------------------------------------------------- start()
\* RUN has not been set to false yet / is set to false now: armed tells
\* whether the main thread has passed its test of RUN and not yet begun the
\* job of that iteration.
NotStopped == [stopped |-> FALSE, armed |-> FALSE, begun |-> 0]
StoppedNow == [stopped |-> TRUE, armed |-> pc \in {"pop", "call"}, begun |-> 0]
BegunOne(a) == IF a.stopped THEN [a EXCEPT !.begun = @ + 1] ELSE a

\* State right after start() has set RUN and spawned turtl-main.
Init ==
    /\ RUN = TRUE
    /\ queue_main = <<>>
    /\ pc = "init"
    /\ handler = <<>>
    /\ running = {}
    /\ started = <<>>
    /\ executed = <<>>
    /\ pushed = <<>>
    /\ nextJob = 0
    /\ stopPc = [s \in Stoppers |-> "idle"]
    /\ seenAtExit = -1
    /\ atStop = NotStopped
    /\ trace = <<>>
    /\ errlog = <<>>
    /\ events = <<>>
    /\ search = "none"
    /\ pending = <<>>
    /\ frozen = <<>>
    /\ nextSync = 0
    /\ syncEv = NoEv
    /\ call = NoCall

\* Data folder, messaging thread and Turtl object were set up; the main
\* loop is about to test RUN.
StartOk ==
    /\ pc = "init"
    /\ events' = BindTo(events, Binding("app:shutdown", "app:shutdown", "stop"))
    /\ pc' = "loop"
    /\ UNCHANGED <<RUN, queue_main, handler, running, started, executed,
                   pushed, nextJob, stopPc, seenAtExit, atStop, trace,
                   errlog, search, pending, frozen, nextSync, syncEv, call>>

\* create_dir or Turtl::new_wrap failed: error! and return before the loop.
StartFail ==
    /\ pc = "init"
    /\ pc' = "aborted"
    /\ errlog' = Append(errlog, "start")
    /\ UNCHANGED <<RUN, queue_main, handler, running, started, executed,
                   pushed, nextJob, stopPc, seenAtExit, atStop, trace>>
    /\ UNCHANGED dispVars

\* ---------------------------------------------------------- other threads
\* tx.push(job) from any thread.
Push(p) ==
    /\ nextJob < MaxJobs
    /\ nextJob' = nextJob + 1
    /\ queue_main' = Append(queue_main, Job(p, nextJob + 1))
    /\ pushed' = Append(pushed, Job(p, nextJob + 1))
    /\ UNCHANGED <<RUN, pc, handler, running, started, executed, stopPc,
                   seenAtExit, atStop, trace, errlog>>
    /\ UNCHANGED dispVars

\* stop(): (*RUN).set(false)
StopSet(s) ==
    /\ stopPc[s] = "idle"
    /\ RUN' = FALSE
    /\ atStop' = IF RUN THEN StoppedNow ELSE atStop
    /\ stopPc' = [stopPc EXCEPT ![s] = "set"]
    /\ UNCHANGED <<queue_main, pc, handler, running, started, executed,
                   pushed, nextJob, seenAtExit, trace, errlog>>
    /\ UNCHANGED dispVars

\* stop(): tx.push(Box::new(move |_| {}))
StopPushDropped(s) ==
    /\ stopPc[s] = "set"
    /\ stopPc' = [stopPc EXCEPT ![s] = "done"]
    /\ UNCHANGED <<RUN, queue_main, pc, handler, running, started, executed,
                   pushed, nextJob, seenAtExit, atStop, trace, errlog>>
    /\ UNCHANGED dispVars

StopPush(s) ==
    /\ stopPc[s] = "set"
    /\ queue_main' = Append(queue_main, NoopJob(s))
    /\ pushed' = Append(pushed, NoopJob(s))
    /\ stopPc' = [stopPc EXCEPT ![s] = "done"]
    /\ UNCHANGED <<RUN, pc, handler, running, started, executed, nextJob,
                   seenAtExit, atStop, trace, errlog>>
    /\ UNCHANGED dispVars

\* ------------------------------------------------------------- main loop
LoopCheckDrains ==
    /\ pc = "loop"
    /\ IF RUN \/ queue_main # <<>>
         THEN /\ pc' = "pop"
              /\ UNCHANGED <<seenAtExit, trace>>
         ELSE /\ pc' = "shutdown"
              /\ seenAtExit' = Len(pushed)
              /\ trace' = Append(trace, "exit")
    /\ UNCHANGED <<RUN, queue_main, handler, running, started, executed,
                   pushed, nextJob, stopPc, atStop, errlog>>
    /\ UNCHANGED dispVars

\* while (*RUN).running()
LoopCheck ==
    /\ pc = "loop"
    /\ IF RUN
         THEN /\ pc' = "pop"
              /\ UNCHANGED <<seenAtExit, trace>>
         ELSE /\ pc' = "shutdown"
              /\ seenAtExit' = Len(pushed)
              /\ trace' = Append(trace, "exit")
    /\ UNCHANGED <<RUN, queue_main, handler, running, started, executed,
                   pushed, nextJob, stopPc, atStop, errlog>>
    /\ UNCHANGED dispVars

\* let handler = queue_main.pop();   blocks while the queue is empty
PopNewest ==
    /\ pc = "pop"
    /\ queue_main # <<>>
    /\ handler' = <<queue_main[Len(queue_main)]>>
    /\ queue_main' = SubSeq(queue_main, 1, Len(queue_main) - 1)
    /\ pc' = "call"
    /\ UNCHANGED <<RUN, running, started, executed, pushed, nextJob, stopPc,
                   seenAtExit, atStop, trace, errlog>>
    /\ UNCHANGED dispVars

Pop ==
    /\ pc = "pop"
    /\ queue_main # <<>>
    /\ handler' = <<Head(queue_main)>>
    /\ queue_main' = Tail(queue_main)
    /\ pc' = "call"
    /\ UNCHANGED <<RUN, running, started, executed, pushed, nextJob, stopPc,
                   seenAtExit, atStop, trace, errlog>>
    /\ UNCHANGED dispVars

\* handler.call_box(turtl.clone()) is entered
CallBox ==
    /\ pc = "call"
    /\ running' = running \cup {handler[1]}
    /\ started' = Append(started, handler[1])
    /\ atStop' = BegunOne(atStop)
    /\ pc' = "exec"
    /\ UNCHANGED <<RUN, queue_main, handler, executed, pushed, nextJob,
                   stopPc, seenAtExit, trace, errlog>>
    /\ UNCHANGED dispVars

\* handler.call_box(..) returns; the FnBox is consumed
CallReturnKeepsHandler ==
    /\ pc = "exec"
    /\ running' = running \ {handler[1]}
    /\ executed' = Append(executed, handler[1])
    /\ pc' = "call"
    /\ UNCHANGED <<RUN, queue_main, handler, started, pushed, nextJob,
                   stopPc, seenAtExit, atStop, trace, errlog>>
    /\ UNCHANGED dispVars

CallReturn ==
    /\ pc = "exec"
    /\ running' = running \ {handler[1]}
    /\ executed' = Append(executed, handler[1])
    /\ handler' = <<>>
    /\ pc' = "loop"
    /\ UNCHANGED <<RUN, queue_main, started, pushed, nextJob, stopPc,
                   seenAtExit, atStop, trace, errlog>>
    /\ UNCHANGED dispVars

\* turtl.write().unwrap().shutdown()
Shutdown ==
    /\ pc = "shutdown"
    /\ trace' = Append(trace, "shutdown")
    /\ pc' = "join"
    /\ UNCHANGED <<RUN, queue_main, handler, running, started, executed,
                   pushed, nextJob, stopPc, seenAtExit, atStop, errlog>>
    /\ UNCHANGED dispVars

\* match handle.join() { Ok(..) => {}, Err(e) => error!(..) }
JoinErrFatal(ok) ==
    /\ pc = "join"
    /\ trace' = Append(trace, IF ok THEN "join_ok" ELSE "join_err")
    /\ pc' = IF ok THEN "done" ELSE "aborted"
    /\ UNCHANGED <<RUN, queue_main, handler, running, started, executed,
                   pushed, nextJob, stopPc, seenAtExit, atStop, errlog>>
    /\ UNCHANGED dispVars

Join(ok) ==
    /\ pc = "join"
    /\ trace' = Append(trace, IF ok THEN "join_ok" ELSE "join_err")
    /\ errlog' = IF ok THEN errlog ELSE Append(errlog, "join")
    /\ pc' = "done"
    /\ UNCHANGED <<RUN, queue_main, handler, running, started, executed,
                   pushed, nextJob, stopPc, seenAtExit, atStop>>
    /\ UNCHANGED dispVars

\* --------------------------------------------------------------- process()
\* The state dispatch() can read or change.
Shared ==
    [RUN |-> RUN, queue_main |-> queue_main, pushed |-> pushed,
     events |-> events, search |-> search, pending |-> pending,
     frozen |-> frozen, syncEv |-> syncEv, fired |-> <<>>]

\* The Turtl object exists and the messaging thread has not been joined.
TurtlAlive == InLoop \/ pc \in {"shutdown", "join"}

Stops(q) == Len(SelectSeq(q, LAMBDA j : j.kind = "noop"))

ResponseAlwaysSuccess(mid, res) ==
    [mid |-> mid, kind |-> "success", val |-> res.val, err |-> NoErr]

Response(mid, res) ==
    [mid |-> mid, kind |-> IF res.ok THEN "success" ELSE "error",
     val |-> res.val, err |-> res.err]

\* process() ends with Ok(()) whatever msg_success / msg_error returned.
ReturnAfterSendPropagates(o) == IF o.send THEN Ok(NoVal) ELSE Err("Send", "")

ReturnAfterSend(o) == Ok(NoVal)

\* What one call process(turtl, msg) did.
ProcessResultNoDecodeCheck(msg, o, t) ==
    LET mid == GetString(msg, 0)
        cmd == GetString(msg, 1)
        midv == IF mid.ok THEN Arg(mid) ELSE ""
        cmdv == IF cmd.ok THEN Arg(cmd) ELSE ""
        d == Dispatch(cmdv, msg, o, t)
    IN  [call |-> [msg |-> msg, stage |-> "dispatched", mid |-> midv,
                   cmd |-> cmdv, res |-> d.res, ret |-> Ok(NoVal),
                   sent |-> <<Response(midv, d.res)>>,
                   log |-> IF o.send THEN <<>> ELSE <<"send">>,
                   ops |-> d.ops, ev |-> t.syncEv, fired |-> d.t.fired],
         t |-> d.t]

ProcessResult(msg, o, t) ==
    LET mid == GetString(msg, 0)
        cmd == GetString(msg, 1)
        stop(stage, e) ==
            [call |-> [NoCall EXCEPT !.msg = msg, !.stage = stage, !.ret = e,
                                     !.ev = t.syncEv],
             t |-> t]
        d == Dispatch(Arg(cmd), msg, o, t)
    IN  IF ~msg.parses THEN stop("parse", Err("Parse", ""))
        ELSE IF ~mid.ok THEN stop("mid", Err("MissingField", "missing mid (0)"))
        ELSE IF ~cmd.ok THEN stop("cmd", Err("MissingField", "missing cmd (1)"))
        ELSE [call |-> [msg |-> msg, stage |-> "dispatched", mid |-> Arg(mid),
                        cmd |-> Arg(cmd), res |-> d.res,
                        ret |-> ReturnAfterSend(o),
                        sent |-> <<Response(Arg(mid), d.res)>>,
                        log |-> IF o.send THEN <<>> ELSE <<"send">>,
                        ops |-> d.ops, ev |-> t.syncEv, fired |-> d.t.fired],
              t |-> d.t]

Process(msg, o) ==
    LET r == ProcessResult(msg, o, Shared) IN
    /\ TurtlAlive
    /\ call = NoCall
    /\ Stops(r.t.pushed) <= NumStoppers
    /\ call' = r.call
    /\ RUN' = r.t.RUN
    /\ atStop' = IF RUN /\ ~r.t.RUN THEN StoppedNow ELSE atStop
    /\ queue_main' = r.t.queue_main
    /\ pushed' = r.t.pushed
    /\ events' = r.t.events
    /\ search' = r.t.search
    /\ pending' = r.t.pending
    /\ frozen' = r.t.frozen
    /\ syncEv' = r.t.syncEv
    /\ UNCHANGED <<pc, handler, running, started, executed, nextJob, stopPc,
                   seenAtExit, trace, errlog, nextSync>>

\* Some envelope of the set M arrives and is processed; sends lists the
\* transmission outcomes considered.
Receive(M, sends) ==
    /\ TurtlAlive
    /\ call = NoCall
    /\ \E msg \in M : \E o \in OraclesFor(msg) :
          o.send \in sends /\ Process(msg, o)

\* process() has returned; its caller drops the envelope and the result.
ProcessReturn ==
    /\ call # NoCall
    /\ call' = NoCall
    /\ UNCHANGED <<pipeVars, events, search, pending, frozen, nextSync, syncEv>>

\* ------------------------------------------------ users of the emitter
\* Some component binds a handler: events.bind(name, handler, id).
Bind(name, id, does) ==
    /\ TurtlAlive
    /\ call = NoCall
    /\ Len(events) < MaxHandlers
    /\ events' = BindTo(events, Binding(name, id, does))
    /\ events' # events
    /\ UNCHANGED <<pipeVars, search, pending, frozen, nextSync, syncEv, call>>

\* Some component unbinds a handler: events.unbind(name, id).
Unbind(name, id) ==
    /\ TurtlAlive
    /\ call = NoCall
    /\ events' = UnbindFrom(events, name, id)
    /\ events' # events
    /\ UNCHANGED <<pipeVars, search, pending, frozen, nextSync, syncEv, call>>

\* ------------------------------------------------------- the search index
\* The Coordinator builds the search index (turtl.search becomes Some).
IndexBuilt ==
    /\ TurtlAlive
    /\ search = "none"
    /\ search' = "ready"
    /\ UNCHANGED <<pipeVars, events, pending, frozen, nextSync, syncEv, call>>

\* The Coordinator drops the search index (turtl.search becomes None).
IndexDropped ==
    /\ TurtlAlive
    /\ search = "ready"
    /\ search' = "none"
    /\ UNCHANGED <<pipeVars, events, pending, frozen, nextSync, syncEv, call>>

\* ------------------------------------------------ the transmission worker
\* enqueue_pending: a local change is recorded under a fresh sync id.
Enqueue ==
    /\ TurtlAlive
    /\ nextSync < MaxSync
    /\ nextSync' = nextSync + 1
    /\ pending' = Append(pending, SyncIdOf[nextSync + 1])
    /\ syncEv' = Ev("enqueue", SyncIdOf[nextSync + 1])
    /\ UNCHANGED <<pipeVars, events, search, frozen, call>>

\* The worker gives up on a pending item: pending -> frozen.
Freeze(x) ==
    /\ TurtlAlive
    /\ x \in Range(pending)
    /\ pending' = Without(pending, x)
    /\ frozen' = Append(frozen, x)
    /\ syncEv' = Ev("freeze", x)
    /\ UNCHANGED <<pipeVars, events, search, nextSync, call>>

\* The job pipeline: producers, stop() callers and the main thread.
Next ==
    \/ StartOk
    \/ StartFail
    \/ \E p \in Producers : Push(p)
    \/ \E s \in Stoppers : StopSet(s)
    \/ \E s \in Stoppers : StopPush(s)
    \/ LoopCheck
    \/ Pop
    \/ CallBox
    \/ CallReturn
    \/ Shutdown
    \/ \E ok \in BOOLEAN : Join(ok)

Spec == Init /\ [][Next]_vars

\* The dispatcher, the transmission worker and the main thread.
NextMsg ==
    \/ StartOk
    \/ StartFail
    \/ Receive(Messages, BOOLEAN)
    \/ ProcessReturn
    \/ IndexBuilt
    \/ IndexDropped
    \/ LoopCheck
    \/ Pop
    \/ CallBox
    \/ CallReturn
    \/ Shutdown
    \/ \E ok \in BOOLEAN : Join(ok)

SpecMsg == Init /\ [][NextMsg]_vars

\* The outgoing sync queue as the dispatcher and the transmission worker see
\* it while the main thread stays in its loop (Spec and SpecMsg cover the
\* steps of the main thread).
NextSyncQueue ==
    \/ StartOk
    \/ StartFail
    \/ Receive(SyncMessages, {TRUE})
    \/ ProcessReturn
    \/ Enqueue
    \/ \E x \in SyncIds : Freeze(x)

SpecSync == Init /\ [][NextSyncQueue]_vars

\* Fair scheduling: the turtl-main thread keeps running (every job's
\* call_box returns), and a thread inside stop() reaches its push.
Consumer ==
    \/ StartOk
    \/ StartFail
    \/ LoopCheck
    \/ Pop
    \/ CallBox
    \/ CallReturn
    \/ Shutdown
    \/ \E ok \in BOOLEAN : Join(ok)

SpecFair ==
    /\ Init
    /\ [][Next]_vars
    /\ WF_vars(Consumer)
    /\ \A s \in Stoppers : WF_vars(StopPush(s))

\* The event emitter: components bind and unbind handlers, and app:shutdown
\* triggers the event while the main thread stays in its loop.
EventMessages ==
    {m \in Decodable : At(m, 1).v = "app:shutdown" /\ At(m, 0).v = "r1"}

NextEvents ==
    \/ StartOk
    \/ StartFail
    \/ \E n \in EventNames, h \in HandlerIds, d \in Behaviours : Bind(n, h, d)
    \/ \E n \in EventNames, h \in HandlerIds \cup {"app:shutdown", "late"} :
          Unbind(n, h)
    \/ Receive(EventMessages, {TRUE})
    \/ ProcessReturn

SpecEvents == Init /\ [][NextEvents]_vars

\* Shutdown asked for through the dispatcher while producers push jobs and
\* the main thread runs.
NextShutdown ==
    \/ StartOk
    \/ StartFail
    \/ \E p \in Producers : Push(p)
    \/ Receive(ShutdownMessages, BOOLEAN)
    \/ ProcessReturn
    \/ LoopCheck
    \/ Pop
    \/ CallBox
    \/ CallReturn
    \/ Shutdown
    \/ \E ok \in BOOLEAN : Join(ok)

SpecShutdown ==
    /\ Init
    /\ [][NextShutdown]_vars
    /\ WF_vars(Consumer)

\* ----------------------------------------------------------------- helpers
IsPrefix(a, b) == Len(a) <= Len(b) /\ a = SubSeq(b, 1, Len(a))
NoDup(q) == \A i, j \in 1..Len(q) : q[i] = q[j] => i = j

\* =================================================================== C1
\* C1 (as stated): once the loop has exited, every job pushed before the
\* consumer read RUN = false has been executed.
C1_DrainBeforeExit ==
    Exited => \A i \in 1..seenAtExit : pushed[i] \in Range(executed)

\* C1 (amended): the jobs executed are exactly the jobs the consumer popped,
\* they are the first jobs in push order, and once the loop has exited every
\* other pushed job (the stop no-op included) is still in the queue,
\* unexecuted.
C1_PoppedJobsExecuted ==
    /\ pushed = executed \o handler \o queue_main
    /\ Exited => /\ handler = <<>>
                 /\ started = executed
                 /\ pushed = executed \o queue_main

C1_Witness ==
    /\ pc = "done"
    /\ Len(executed) >= 1
    /\ \E i \in 1..Len(queue_main) : queue_main[i].kind = "noop"
    /\ \E i \in 1..Len(queue_main) : queue_main[i].kind = "job"

\* =================================================================== C2
\* C2: once some call of stop() has completed (flag stored, no-op pushed),
\* the main loop eventually exits; the consumer does not stay in pop().
C2_StopEventuallyExits ==
    (\E s \in Stoppers : stopPc[s] = "done") ~> (~InLoop /\ pc # "init")

\* The consumer was woken from pop() on an empty queue by the no-op alone.
C2_Witness ==
    /\ Exited
    /\ nextJob = 0
    /\ Len(executed) = 1
    /\ executed[1].kind = "noop"

\* =================================================================== C3
\* C3: only turtl-main removes jobs from the queue; at most one job runs at
\* a time; job k has returned before job k+1 is popped; jobs start in push
\* order, none twice; nothing starts once the loop has exited.
C3_State ==
    /\ Cardinality(running) <= 1
    /\ IsPrefix(executed, started)
    /\ IsPrefix(started, pushed)
    /\ NoDup(started)
    /\ Len(started) - Len(executed) = (IF pc = "exec" THEN 1 ELSE 0)
    /\ pc \in {"loop", "pop"} => (handler = <<>> /\ running = {})
    /\ (Exited \/ pc = "aborted") => running = {}

C3_Step ==
    /\ Len(queue_main') < Len(queue_main) => (pc = "pop" /\ pc' = "call")
    /\ started' # started => (pc = "call" /\ InLoop')
    /\ (Exited \/ pc = "aborted") => started' = started

C3_Serialized == []C3_State /\ [][C3_Step]_vars

C3_Witness ==
    /\ pc = "done"
    /\ Len(executed) >= 2
    /\ executed[1].by # executed[2].by

\* =================================================================== C4
\* C4: the loop exits only after stop() stored RUN = false; then shutdown()
\* runs once, then the join, then the thread ends; a failed join is logged
\* and the thread still ends.
ShutdownOrders ==
    {<<"exit", "shutdown", "join_ok">>, <<"exit", "shutdown", "join_err">>}

C4_ShutdownOrder ==
    /\ \E o \in ShutdownOrders : IsPrefix(trace, o)
    /\ Len(trace) = (CASE pc = "shutdown" -> 1
                       [] pc = "join" -> 2
                       [] pc = "done" -> 3
                       [] OTHER -> 0)
    /\ Exited => (~RUN /\ \E s \in Stoppers : stopPc[s] # "idle")
    /\ "join_err" \in Range(trace) => (pc = "done" /\ "join" \in Range(errlog))

C4_Witness ==
    /\ pc = "done"
    /\ trace = <<"exit", "shutdown", "join_err">>
    /\ errlog = <<"join">>

\* =================================================================== C5
\* The envelope of the current call, as process() decodes it.
CallMade == call # NoCall
MidKnown == CallMade /\ call.msg.parses /\ GetString(call.msg, 0).ok
CmdKnown == CallMade /\ call.msg.parses /\ GetString(call.msg, 1).ok

ExactlyOneResponse ==
    /\ Len(call.sent) = 1
    /\ call.sent[1].mid = At(call.msg, 0).v
    /\ call.res.ok => (/\ call.sent[1].kind = "success"
                       /\ call.sent[1].val = call.res.val
                       /\ call.sent[1].err = NoErr)
    /\ ~call.res.ok => (/\ call.sent[1].kind = "error"
                        /\ call.sent[1].err = call.res.err
                        /\ call.sent[1].val = NoVal)

Malformed == CallMade /\ ~(MidKnown /\ CmdKnown)

C6_State ==
    Malformed => (/\ call.sent = <<>>
                  /\ call.ops = <<>>
                  /\ call.log = <<>>
                  /\ ~call.ret.ok)

C6_Step ==
    (call = NoCall /\ Malformed') =>
        UNCHANGED <<RUN, queue_main, pushed, events, search, pending, frozen,
                    syncEv>>

C6_MalformedGetsNoResponse == []C6_State /\ [][C6_Step]_vars

C6_Witness ==
    /\ Malformed
    /\ call.msg = Env(TRUE, Str("r1"), Num, Str(SyncIdOf[1]), Absent, Absent)
    /\ SyncIdOf[1] \in Range(pending)
    /\ call.ret = Err("MissingField", "missing cmd (1)")

\* =================================================================== C7
\* C7: a command string outside the table yields the unknown-command error
\* carrying that very string, invokes nothing, and leaves RUN, the job queue
\* and the pending and frozen sets as they were.
UnknownCall == MidKnown /\ CmdKnown /\ At(call.msg, 1).v \notin Commands

C7_State ==
    UnknownCall => (/\ call.res = Err("MissingCommand", At(call.msg, 1).v)
                    /\ call.ops = <<>>)

C7_Step ==
    (call = NoCall /\ UnknownCall') =>
        UNCHANGED <<RUN, queue_main, pending, frozen>>

C7_UnknownCommand == []C7_State /\ [][C7_Step]_vars

C7_Witness ==
    /\ UnknownCall
    /\ call.res.err = [kind |-> "MissingCommand", info |-> "PING"]
    /\ pending # <<>>
    /\ frozen # <<>>
    /\ queue_main # <<>>

\* =================================================================== C8
\* C8: no sync id is both pending and frozen; the id just enqueued is listed
\* by sync:get-pending and not by sync:get-frozen, and the id just frozen is
\* listed by sync:get-frozen and not by sync:get-pending.
Listed(cmd) == MidKnown /\ CmdKnown /\ At(call.msg, 1).v = cmd

C8_PendingFrozenDisjoint ==
    /\ Range(pending) \cap Range(frozen) = {}
    /\ syncEv.op = "enqueue" =>
          (syncEv.id \in Range(pending) /\ syncEv.id \notin Range(frozen))
    /\ syncEv.op = "freeze" =>
          (syncEv.id \in Range(frozen) /\ syncEv.id \notin Range(pending))
    /\ Listed("sync:get-pending") =>
          /\ call.res.ok
          /\ call.ev.op = "enqueue" => call.ev.id \in Range(call.res.val.items)
          /\ call.ev.op = "freeze" => call.ev.id \notin Range(call.res.val.items)
    /\ Listed("sync:get-frozen") =>
          /\ call.res.ok
          /\ call.ev.op = "enqueue" => call.ev.id \notin Range(call.res.val.items)
          /\ call.ev.op = "freeze" => call.ev.id \in Range(call.res.val.items)

C8_Witness ==
    /\ Listed("sync:get-frozen")
    /\ call.ev = Ev("freeze", SyncIdOf[2])
    /\ call.res.val.items = <<SyncIdOf[1], SyncIdOf[2]>>
    /\ pending = <<>>

\* =================================================================== C9
\* C9: sync:delete-item with a string id always succeeds; afterwards the id
\* is in neither set and every other id is where it was; for an id in
\* neither set (a repeated delete included) nothing changes.
DeleteCall == Listed("sync:delete-item") /\ At(call.msg, 2).k = "str"

C9_Step ==
    (call = NoCall /\ DeleteCall') =>
        LET id == At(call'.msg, 2).v IN
        /\ call'.res = Ok(EmptyObj)
        /\ id \notin Range(pending') \cup Range(frozen')
        /\ pending' = SelectSeq(pending, LAMBDA y : y # id)
        /\ frozen' = SelectSeq(frozen, LAMBDA y : y # id)
        /\ id \notin Range(pending) \cup Range(frozen)
              => UNCHANGED <<pending, frozen>>

C9_DeleteIdempotent == [][C9_Step]_vars

\* The second delete of an id that had been enqueued, beside another item.
C9_Witness ==
    /\ DeleteCall
    /\ At(call.msg, 2).v = SyncIdOf[1]
    /\ call.ev = Ev("delete", SyncIdOf[1])
    /\ call.res.ok
    /\ Range(pending) \cup Range(frozen) = {SyncIdOf[2]}

\* ================================================================== C10
\* C10: sync:unfreeze-item with a string id succeeds exactly when the id is
\* frozen, and then the id is pending and no longer frozen; otherwise it
\* fails with "not found" and neither set changes.
UnfreezeCall == Listed("sync:unfreeze-item") /\ At(call.msg, 2).k = "str"

C10_Step ==
    (call = NoCall /\ UnfreezeCall') =>
        LET id == At(call'.msg, 2).v IN
        IF id \in Range(frozen)
        THEN /\ call'.res = Ok(EmptyObj)
             /\ id \in Range(pending')
             /\ id \notin Range(frozen')
             /\ Range(pending') = Range(pending) \cup {id}
             /\ Range(frozen') = Range(frozen) \ {id}
        ELSE /\ ~call'.res.ok
             /\ call'.res.err = [kind |-> "NotFound", info |-> id]
             /\ UNCHANGED <<pending, frozen>>

C10_Unfreeze == [][C10_Step]_vars

C10_Witness ==
    /\ UnfreezeCall
    /\ call.ev = Ev("freeze", At(call.msg, 2).v)
    /\ call.res.ok
    /\ At(call.msg, 2).v \in Range(pending)
    /\ frozen # <<>>

\* ================================================================== C11
SearchCall == Listed("profile:find-notes") \/ Listed("profile:get-tags")

SearchArgsDecode ==
    \/ Listed("profile:find-notes") /\ At(call.msg, 2).k = "obj"
    \/ /\ Listed("profile:get-tags")
       /\ At(call.msg, 2).k = "str"
       /\ At(call.msg, 3).k = "arr"
       /\ At(call.msg, 4).k = "num"

SearchOps == {"find", "load_notes", "tags_by_frequency"}

\* C11 (as stated): without a search index, profile:find-notes and
\* profile:get-tags fail with the missing-search error for any arguments.
C11_Step_AnyArguments ==
    (call = NoCall /\ search = "none" /\ SearchCall') =>
        (~call'.res.ok /\ call'.res.err.kind = "MissingField")

C11_MissingSearchForAnyArguments == [][C11_Step_AnyArguments]_vars

\* C11 (amended): without a search index both commands fail and run no
\* search and no note load; the error is the missing-search error whenever
\* the arguments decode, and the argument's decode error otherwise.
C11_Step ==
    (call = NoCall /\ search = "none" /\ SearchCall') =>
        /\ ~call'.res.ok
        /\ Range(call'.ops) \cap SearchOps = {}
        /\ SearchArgsDecode' =>
              call'.res.err = [kind |-> "MissingField", info |-> "search"]
        /\ ~SearchArgsDecode' =>
              call'.res.err.kind \in {"NotFound", "BadType"}

C11_MissingSearch == [][C11_Step]_vars

C11_Witness ==
    /\ Listed("profile:find-notes")
    /\ SearchArgsDecode
    /\ search = "none"
    /\ call.res = Err("MissingField", "search")
    /\ call.ops = <<>>

\* ================================================================== C12
\* C12: user:login and user:join with the username present and the password
\* missing fail with the missing-field error of position 3, with the
\* username missing with that of position 2, and login / join is invoked
\* only when both positions hold strings.
LoginCall == Listed("user:login") \/ Listed("user:join")

C12_LoginArguments ==
    LoginCall =>
        /\ At(call.msg, 2).k = "absent" =>
              (call.res = Err("NotFound", "2") /\ call.ops = <<>>)
        /\ (At(call.msg, 2).k = "str" /\ At(call.msg, 3).k = "absent") =>
              (call.res = Err("NotFound", "3") /\ call.ops = <<>>)
        /\ call.ops # <<>> =>
              /\ At(call.msg, 2).k = "str"
              /\ At(call.msg, 3).k = "str"
              /\ call.ops = (IF Listed("user:login") THEN <<"login">>
                             ELSE <<"join">>)

C12_Witness ==
    /\ Listed("user:login")
    /\ At(call.msg, 2) = Str("u")
    /\ At(call.msg, 3) = Absent
    /\ call.res = Err("NotFound", "3")
    /\ call.ops = <<>>

\* ================================================================== C13
FiveModelTypes == {"User", "Space", "Board", "Note", "Invite"}
ModelOps == {"save_model", "delete_model"}

SyncModelCall == Listed("profile:sync:model")
ActionArg == At(call.msg, 2)
TypeArg == At(call.msg, 3)
ActionDecodes == ActionArg.k = "str" /\ ActionArg.v \in {"Add", "Edit", "Delete"}
OtherType == ~(TypeArg.k = "str" /\ TypeArg.v \in FiveModelTypes)
HasId == At(call.msg, 4).k = "obj" /\ At(call.msg, 4).v # ""

\* C13 (as stated): a type outside the five model types is rejected with an
\* error and no model is saved or deleted.
C13_OtherTypesRejected ==
    (SyncModelCall /\ OtherType) =>
        (~call.res.ok /\ Range(call.ops) \cap ModelOps = {})

\* C13 (amended): for a type outside the five model types no model is saved
\* or deleted; the request fails unless the type is File, which succeeds as
\* a no-op (Null for Add and Edit, an empty object for a Delete with an id).
C13_OtherTypesNeverMutate ==
    (SyncModelCall /\ OtherType) =>
        /\ Range(call.ops) \cap ModelOps = {}
        /\ call.res.ok <=>
              /\ ActionDecodes
              /\ TypeArg = Str("File")
              /\ ActionArg.v = "Delete" => HasId
        /\ call.res.ok =>
              call.res.val = (IF ActionArg.v = "Delete" THEN EmptyObj ELSE NullVal)

C13_Witness ==
    /\ SyncModelCall
    /\ ActionArg = Str("Add")
    /\ TypeArg = Str("File")
    /\ call.res = Ok(NullVal)
    /\ call.ops = <<>>

\* ================================================================== C16
\* C16: when the transmission of the response fails, process() has made its
\* one send, turns the failure into nothing but a log line, and returns Ok;
\* it returns an error exactly for an envelope it could not decode.
C16_SendFailureSwallowed ==
    /\ (CallMade /\ call.log # <<>>) =>
          /\ call.log = <<"send">>
          /\ call.stage = "dispatched"
          /\ call.sent = <<Response(call.mid, call.res)>>
          /\ call.ret = Ok(NoVal)
    /\ CallMade => (~call.ret.ok <=> Malformed)

C16_Witness ==
    /\ CallMade
    /\ call.log = <<"send">>
    /\ Len(call.sent) = 1
    /\ call.sent[1].kind = "error"
    /\ call.ret.ok

\* ================================================================== C17
\* C17 (as stated): profile:load without a search index fails with the
\* missing-search error.
C17_Step_NeedsSearch ==
    (call = NoCall /\ search = "none" /\ Listed("profile:load")') =>
        (~call'.res.ok /\ call'.res.err.kind = "MissingField")

C17_ProfileLoadNeedsSearch == [][C17_Step_NeedsSearch]_vars

\* C17 (amended): profile:load does not consult the search index: with or
\* without it, it returns the {spaces, boards} value and changes nothing.
C17_Step ==
    (call = NoCall /\ Listed("profile:load")') =>
        /\ call'.res = Ok(ProfileVal)
        /\ call'.ops = <<>>
        /\ UNCHANGED <<RUN, queue_main, search, pending, frozen>>

C17_ProfileLoadIgnoresSearch == [][C17_Step]_vars

C17_Witness ==
    /\ Listed("profile:load")
    /\ search = "none"
    /\ call.res = Ok(ProfileVal)
    /\ call.sent[1].kind = "success"

\* ================================================================== C18
NoDirectForm ==
    TypeArg.k = "str" /\ TypeArg.v \in SyncTypes \ (FiveModelTypes \cup {"File"})

\* C18 (as stated): with a decodable action and a type without direct-sync
\* form the error is the unsupported-type error, whatever position 4 holds.
C18_UnsupportedTypeAlways ==
    (SyncModelCall /\ ActionDecodes /\ NoDirectForm) =>
        call.res = Err("BadValue", TypeArg.v)

\* C18 (amended): with a decodable action and a type without direct-sync
\* form the request always fails without saving or deleting; the error is
\* the unsupported-type error for Add and Edit whatever position 4 holds
\* and for Delete when position 4 carries an id; a Delete without an id at
\* position 4 fails with the decode error of that id instead.
C18_UnsupportedType ==
    (SyncModelCall /\ ActionDecodes /\ NoDirectForm) =>
        /\ ~call.res.ok
        /\ call.ops = <<>>
        /\ (ActionArg.v \in {"Add", "Edit"} \/ HasId) =>
              call.res = Err("BadValue", TypeArg.v)
        /\ (ActionArg.v = "Delete" /\ ~HasId) =>
              call.res.err.kind \in {"NotFound", "BadType"}

C18_Witness ==
    /\ SyncModelCall
    /\ ActionArg = Str("Delete")
    /\ TypeArg = Str("Keychain")
    /\ At(call.msg, 4) = Obj("")
    /\ call.res = Err("NotFound", "4.id")

\* ================================================================== C14
ShutdownCall == Listed("app:shutdown")

C14_Step ==
    (call = NoCall /\ ShutdownCall' /\ call'.res.ok) =>
        /\ call'.ops = <<"sync_shutdown", "trigger">>
        /\ ~RUN'
        /\ queue_main' = Append(queue_main, NoopJob(0))
        /\ pushed' = Append(pushed, NoopJob(0))
        /\ call'.sent = <<Response(call'.mid, Ok(EmptyObj))>>

\* C14: when dispatch of app:shutdown succeeds, the app:shutdown event has
\* been triggered exactly once and the handler bound in start() has run
\* stop() (RUN false, one no-op job pushed) by the time the success response
\* is sent; the main loop then exits.
C14_ShutdownStopsLoop ==
    /\ [][C14_Step]_vars
    /\ (ShutdownCall /\ call.res.ok) ~> Exited

C14_Witness ==
    /\ ShutdownCall
    /\ call.res.ok
    /\ call.sent[1].kind = "success"
    /\ ~RUN
    /\ Exited
    /\ Len(queue_main) > 0

\* ================================================================== C20
C20_Step ==
    (call = NoCall /\ ShutdownCall' /\ ~call'.res.ok) =>
        /\ call'.res = Failed("sync_shutdown")
        /\ call'.ops = <<"sync_shutdown">>
        /\ UNCHANGED <<RUN, queue_main, pushed, pc>>
        /\ call'.sent = <<Response(call'.mid, Failed("sync_shutdown"))>>
        /\ call'.sent[1].kind = "error"

\* C20: when sync_shutdown fails inside app:shutdown, dispatch returns that
\* error, the event is not triggered, stop() is not called (RUN and the
\* queue are untouched, the main thread stays where it is), and an error
\* response is sent.
C20_FailedShutdownKeepsRunning == [][C20_Step]_vars

C20_Witness ==
    /\ ShutdownCall
    /\ call.res = Failed("sync_shutdown")
    /\ call.sent[1].kind = "error"
    /\ RUN
    /\ InLoop
    /\ Stops(pushed) = 0

\* ================================================================== C19
\* C19: once RUN is false the main thread begins at most one further job,
\* and only when it had passed its test of RUN and not yet begun that
\* iteration's job (none when it was executing a job or about to test RUN);
\* at loop exit the jobs behind it, stop()'s no-op included, are still
\* queued and are never begun.
C19_State ==
    /\ ~RUN <=> atStop.stopped
    /\ atStop.begun <= (IF atStop.armed THEN 1 ELSE 0)
    /\ atStop.begun = 1 => pc \notin {"pop", "call"}
    /\ Exited =>
          /\ ~RUN
          /\ handler = <<>>
          /\ pushed = started \o queue_main

C19_Step == Exited => (started' = started /\ IsPrefix(queue_main, queue_main'))

C19_AtMostOneJobAfterStop == []C19_State /\ [][C19_Step]_vars

C19_Witness ==
    /\ Exited
    /\ atStop.begun = 1
    /\ \E i \in 1..Len(queue_main) : queue_main[i].kind = "job"
    /\ \E i \in 1..Len(queue_main) : queue_main[i].kind = "noop"

\* ================================================================== C15
BoundTo(es, name) == SelectSeq(es, LAMBDA e : e.name = name)
IdsOf(es) == [i \in 1..Len(es) |-> es[i].id]

\* C15: a trigger invokes every handler bound to the event's name when the
\* trigger is called, each exactly once, in binding order, and no handler
\* unbound before the call or bound to another name; what the handlers bind
\* or unbind while the trigger runs changes the registry but not the
\* handlers this trigger invokes.
C15_Step ==
    (call = NoCall /\ ShutdownCall' /\ call'.res.ok) =>
        /\ call'.fired = IdsOf(BoundTo(events, "app:shutdown"))
        /\ NoDup(call'.fired)
        /\ BoundTo(events', "sync:update") = BoundTo(events, "sync:update")
        /\ RUN' = (RUN /\ "app:shutdown" \notin Range(call'.fired))

C15_TriggerInvokesBoundHandlers == [][C15_Step]_vars

C15_Witness ==
    /\ ShutdownCall
    /\ call.res.ok
    /\ Len(call.fired) >= 2
    /\ "late" \notin Range(call.fired)
    /\ \E i \in 1..Len(events) :
          events[i].name = "app:shutdown" /\ events[i].id = "late"
    /\ \E i \in 1..Len(events) : events[i].name = "sync:update"

====
